---------------------------- MODULE Spec2Model ----------------------------
(***************************************************************************)
(* State machine of the TodoList component                                 *)
(* (src/tolist/components/TodoList.tsx).                                   *)
(*                                                                         *)
(* The component's React state is the tuple of variables below.  Every     *)
(* event handler is one action: React re-renders and flushes the passive   *)
(* effects (the save effect of lines 63-67) before the next event is       *)
(* handled, so the effect is part of the action that changed its           *)
(* dependencies.  The initial load (lines 44-61) is a queued microtask: it *)
(* is an action of its own, and handlers may run before it.                *)
(*                                                                         *)
(* Strings are sequences of one-character strings, so that trim,           *)
(* toLowerCase and the comparisons of addTodo are computed.  A JavaScript  *)
(* object is a record whose field ord is the sequence of its own keys in   *)
(* insertion order; JSON text is a tagged value whose objects are          *)
(* sequences of <<key, value>> members.                                    *)
(***************************************************************************)
EXTENDS Integers, Sequences, FiniteSets, TLC

VARIABLES
    todos,        \* useState<Todo[]>([])                       line 35
    isHydrated,   \* useState(false)                            line 36
    selectedIds,  \* useState<Set<number>>(new Set())           line 39
    store,        \* localStorage item "todos"                  lines 46, 65
    microtask,    \* the callback of queueMicrotask             line 45
    now,          \* the clock read by Date.now()               line 84
    maxGenId,     \* history: greatest id addTodo generated so far (0: none)
    written,      \* history: localStorage.setItem has been called
    last          \* history: the last handler that ran and what it did

vars == <<todos, isHydrated, selectedIds, store, microtask, now,
          maxGenId, written, last>>

-----------------------------------------------------------------------------
(* Bounds of the model *)

\* The clock reading when the component mounts; stored ids are older.
BootTime == 3
\* The clock stops advancing here.
MaxClock == 4

-----------------------------------------------------------------------------
(* Strings *)

Whitespace == {" "}

\* String.prototype.toLowerCase on one character
LowerChar(c) ==
    CASE c = "A" -> "a"
      [] c = "B" -> "b"
      [] OTHER   -> c

\* String.prototype.toLowerCase
toLowerCase(s) == [i \in 1..Len(s) |-> LowerChar(s[i])]

RECURSIVE TrimStart(_)
TrimStart(s) ==
    IF s # <<>> /\ Head(s) \in Whitespace THEN TrimStart(Tail(s)) ELSE s

RECURSIVE TrimEnd(_)
TrimEnd(s) ==
    IF s # <<>> /\ s[Len(s)] \in Whitespace
    THEN TrimEnd(SubSeq(s, 1, Len(s) - 1))
    ELSE s

\* String.prototype.trim
trim(s) == TrimEnd(TrimStart(s))

-----------------------------------------------------------------------------
(* Objects and sequences *)

Priority == {"high", "medium", "low"}

\* { ...o, [k]: v }: an own key keeps its place, a new key goes last
Spread(o, k, v) ==
    [f \in DOMAIN o \cup {k} |->
        IF f = k THEN v
        ELSE IF f = "ord"
             THEN (IF k \in DOMAIN o THEN o.ord ELSE Append(o.ord, k))
             ELSE o[f]]

\* The object literal with the priority fixed at medium
NewTodoMedium(id, text, priority) ==
    [ord |-> <<"id", "text", "completed", "priority">>,
     id |-> id, text |-> text, completed |-> FALSE, priority |-> "medium"]

\* The object literal of addTodo
NewTodo(id, text, priority) ==
    [ord |-> <<"id", "text", "completed", "priority">>,
     id |-> id, text |-> text, completed |-> FALSE, priority |-> priority]

RECURSIVE SelectSeq2(_, _)
\* Array.prototype.filter with the predicate given as the set of kept indices
SelectSeq2(s, keep) ==
    IF s = <<>> THEN <<>>
    ELSE LET n    == Len(s)
             init == SelectSeq2(SubSeq(s, 1, n - 1), keep)
         IN  IF n \in keep THEN Append(init, s[n]) ELSE init

\* todos.map((todo) => todo.id), as a set
Ids(ts) == {ts[i].id : i \in 1..Len(ts)}


-----------------------------------------------------------------------------
(* JSON text and the store *)

\* The members of one object as JSON.stringify writes them: own keys in order
Members(o) == [j \in 1..Len(o.ord) |-> <<o.ord[j], o[o.ord[j]]>>]

\* JSON.stringify(todos)
JSONstringify(ts) ==
    [kind |-> "array", items |-> [i \in 1..Len(ts) |-> Members(ts[i])]]

\* The object JSON.parse builds from the members of one JSON object
ObjectOf(ms) ==
    [f \in {"ord"} \cup {ms[j][1] : j \in 1..Len(ms)} |->
        IF f = "ord"
        THEN [j \in 1..Len(ms) |-> ms[j][1]]
        ELSE ms[CHOOSE j \in 1..Len(ms) : ms[j][1] = f][2]]

\* JSON.parse(saved): the array of objects when saved is the text of a JSON
\* array; any other text either fails to parse or yields a value without .map
ParsesAsArray(saved) == saved.kind = "array"
JSONparse(saved) == [i \in 1..Len(saved.items) |-> ObjectOf(saved.items[i])]

\* todo.priority || "medium": a missing key reads undefined, "" is falsy
PriorityOrMedium(o) ==
    IF "priority" \in DOMAIN o /\ o.priority # "" THEN o.priority ELSE "medium"

\* The load keeping the parsed records as they are
WithPriorityUnchanged(parsed) == parsed

\* parsed.map((todo) => ({ ...todo, priority: todo.priority || "medium" }))
WithPriority(parsed) ==
    [i \in 1..Len(parsed) |->
        Spread(parsed[i], "priority", PriorityOrMedium(parsed[i]))]

\* The load with an empty catch block: a failed parse calls no setter
LoadedTodosCatchIgnores(saved, ts) ==
    IF ParsesAsArray(saved) THEN WithPriority(JSONparse(saved)) ELSE ts

\* The value of todos after the microtask of the load effect: a falsy saved
\* (null or "") calls no setter, a throw inside try calls setTodos([])
LoadedTodos(saved, ts) ==
    IF saved.kind \in {"null", "empty"} THEN ts
    ELSE IF ParsesAsArray(saved) THEN WithPriority(JSONparse(saved))
    ELSE <<>>

\* Persist without the isHydrated test
PersistUngated(ts, hyd, st, wr) ==
    [store |-> JSONstringify(ts), written |-> TRUE]

\* The save effect with isHydrated as its only dependency: it runs once
PersistOnHydrationOnly(ts, hyd, st, wr) ==
    IF hyd /\ ~wr THEN [store |-> JSONstringify(ts), written |-> TRUE]
    ELSE [store |-> st, written |-> wr]

\* The save effect writing an empty array whatever the todos
PersistEmptyArray(ts, hyd, st, wr) ==
    IF hyd THEN [store |-> JSONstringify(<<>>), written |-> TRUE]
    ELSE [store |-> st, written |-> wr]

\* The save effect, run after a render in which todos or isHydrated changed:
\* the store and the written flag it leaves
Persist(ts, hyd, st, wr) ==
    IF hyd THEN [store |-> JSONstringify(ts), written |-> TRUE]
    ELSE [store |-> st, written |-> wr]

\* Values the store can hold when the component mounts
Member3(id, text, completed) ==
    << <<"id", id>>, <<"text", text>>, <<"completed", completed>> >>
Member4(id, text, completed, priority) ==
    Append(Member3(id, text, completed), <<"priority", priority>>)

Stores ==
    { [kind |-> "null"],          \* no item under the key
      [kind |-> "empty"],         \* the empty string
      [kind |-> "malformed"],     \* text JSON.parse rejects
      [kind |-> "object"],        \* valid JSON that is no array
      [kind |-> "array", items |-> <<>>],
      \* written before priorities existed
      [kind |-> "array", items |-> << Member3(1, <<"a">>, FALSE) >>],
      \* written by this component
      [kind |-> "array", items |->
          << Member4(1, <<"a">>, TRUE, "low"),
             Member4(2, <<"\"", "b", "\"">>, FALSE, "medium") >>],
      \* other key order, and a falsy priority
      [kind |-> "array", items |->
          << << <<"priority", "high">>, <<"id", 1>>,
                <<"text", <<"A">>>>, <<"completed", TRUE>> >>,
             Member4(2, <<"\"", "b", "\"">>, FALSE, "") >>],
      \* a record without a text
      [kind |-> "array", items |->
          << << <<"id", 1>>, <<"completed", FALSE>> >> >>] }

-----------------------------------------------------------------------------
(* Handlers as functions of the state they read *)

\* What the user can have typed when addTodo runs
Inputs == { <<>>, <<" ">>, <<"a">>, <<" ", "A", " ">>, <<"\"", "b", "\"">> }

\* todo.text is a string, so that its methods can be called
HasText(o) == "text" \in DOMAIN o

\* Exists with the texts compared as they are, case included
ExistsCaseSensitive(ts, trimmed) ==
    \E i \in 1..Len(ts) : HasText(ts[i]) /\ ts[i].text = trimmed

\* todos.some((todo) => todo.text.toLowerCase() === trimmed.toLowerCase())
Exists(ts, trimmed) ==
    \E i \in 1..Len(ts) :
        HasText(ts[i]) /\ toLowerCase(ts[i].text) = toLowerCase(trimmed)

\* The callback of todos.some raises a TypeError: it reaches an item whose
\* text is undefined before it reaches a match
ExistsThrows(ts, trimmed) ==
    \E i \in 1..Len(ts) :
        /\ ~HasText(ts[i])
        /\ ~Exists(SubSeq(ts, 1, i - 1), trimmed)

\* Date.now()
DateNow(clock) == clock

\* addTodo without the duplicate guard
addTodoUnguarded(ts, v, p, clock) ==
    LET trimmed == trim(v)
    IN  IF trimmed # <<>>
        THEN Append(ts, NewTodo(DateNow(clock), trimmed, p))
        ELSE ts

\* The todos addTodo leaves, for input value v and selected priority p
addTodo(ts, v, p, clock) ==
    LET trimmed == trim(v)
    IN  IF trimmed # <<>> /\ ~ExistsThrows(ts, trimmed)
               /\ ~Exists(ts, trimmed)
        THEN Append(ts, NewTodo(DateNow(clock), trimmed, p))
        ELSE ts

\* The kind of input addTodo is given: "blank" when it trims to nothing,
\* "threw" when the duplicate test raises the TypeError, "dup" when an item
\* already has its text up to case, "added" otherwise
AddOutcome(ts, v) ==
    IF trim(v) = <<>> THEN "blank"
    ELSE IF ExistsThrows(ts, trim(v)) THEN "threw"
    ELSE IF \E i \in 1..Len(ts) :
                /\ HasText(ts[i])
                /\ toLowerCase(ts[i].text) = toLowerCase(trim(v))
         THEN "dup"
         ELSE "added"

\* !todo.completed: a missing key reads undefined
NotCompleted(o) == IF "completed" \in DOMAIN o THEN ~o.completed ELSE TRUE

\* toggleTodo marking the item completed instead of flipping the flag
toggleTodoSetsTrue(ts, id) ==
    [i \in 1..Len(ts) |->
        IF ts[i].id = id THEN Spread(ts[i], "completed", TRUE) ELSE ts[i]]

\* The todos toggleTodo(id) leaves
toggleTodo(ts, id) ==
    [i \in 1..Len(ts) |->
        IF ts[i].id = id
        THEN Spread(ts[i], "completed", NotCompleted(ts[i]))
        ELSE ts[i]]

\* deleteTodo leaving the selection as it is
deleteTodoKeepsSelection(ts, sel, id) ==
    [todos |-> SelectSeq2(ts, {i \in 1..Len(ts) : ts[i].id # id}),
     selectedIds |-> sel]

\* The todos and selection deleteTodo(id) leaves
deleteTodo(ts, sel, id) ==
    [todos |-> SelectSeq2(ts, {i \in 1..Len(ts) : ts[i].id # id}),
     selectedIds |-> sel \ {id}]

\* The selection toggleSelect(id) leaves
toggleSelect(sel, id) ==
    IF id \in sel THEN sel \ {id} ELSE sel \cup {id}

\* toggleSelectAll that never clears
toggleSelectAllNeverClears(ts, sel) == Ids(ts)

\* The selection toggleSelectAll() leaves
toggleSelectAll(ts, sel) ==
    IF Cardinality(sel) = Len(ts) THEN {} ELSE Ids(ts)

\* batchDelete with the filter inverted: the selected items are the ones kept
batchDeleteInverted(ts, sel) ==
    [todos |-> SelectSeq2(ts, {i \in 1..Len(ts) : ts[i].id \in sel}),
     selectedIds |-> {}]

\* The todos and selection batchDelete() leaves
batchDelete(ts, sel) ==
    [todos |-> SelectSeq2(ts, {i \in 1..Len(ts) : ts[i].id \notin sel}),
     selectedIds |-> {}]

ExportFormat == {"txt", "json", "csv"}

\* todosToExport of exportTodos
TodosToExport(ts, sel, onlySelected) ==
    IF onlySelected
    THEN SelectSeq2(ts, {i \in 1..Len(ts) : ts[i].id \in sel})
    ELSE ts

\* Texts are sequences of one-character strings, and so is every exported
\* content; a longer string below stands for a fixed piece of text

RECURSIVE Concat(_)
\* The concatenation of a sequence of sequences
Concat(ss) == IF ss = <<>> THEN <<>> ELSE Head(ss) \o Concat(Tail(ss))

RECURSIVE Join(_, _)
\* Array.prototype.join(sep) of a sequence of texts
Join(ss, sep) ==
    IF ss = <<>> THEN <<>>
    ELSE IF Len(ss) = 1 THEN ss[1]
    ELSE ss[1] \o sep \o Join(Tail(ss), sep)

RECURSIVE EscapeFirstQuote(_)
\* replace without the g flag: only the first quote is doubled
EscapeFirstQuote(text) ==
    IF text = <<>> THEN <<>>
    ELSE IF Head(text) = "\"" THEN <<"\"", "\"">> \o Tail(text)
    ELSE <<Head(text)>> \o EscapeFirstQuote(Tail(text))

\* text.replace(/"/g, '""')
EscapeQuotes(text) ==
    Concat([i \in 1..Len(text) |->
               IF text[i] = "\"" THEN <<"\"", "\"">> ELSE <<text[i]>>])

\* priorityLabels
priorityLabels(p) ==
    CASE p = "high"   -> "label-high"
      [] p = "medium" -> "label-medium"
      [] p = "low"    -> "label-low"
      [] OTHER        -> "undefined"

\* priorityIcon of the txt branch
priorityIcon(p) ==
    CASE p = "high"   -> "icon-high"
      [] p = "medium" -> "icon-medium"
      [] p = "low"    -> "icon-low"
      [] OTHER        -> "undefined"

\* todosToExport.filter((t) => pred(t)).length for the index set of pred
CountWhere(items, indices) == Len(SelectSeq2(items, indices))

Completed(items) == {i \in 1..Len(items) : items[i].completed}

\* One row of the csv branch: a tab, the id, the quoted text, the flag, the
\* completion label and the priority label
CsvRow(todo) ==
    <<"\t", ToString(todo.id), ",", "\"">> \o EscapeQuotes(todo.text)
        \o <<"\"", ",", ToString(todo.completed), ",",
             IF todo.completed THEN "label-done" ELSE "label-open", ",",
             priorityLabels(todo.priority)>>

csvHeader == <<"ID", ",", "Text", ",", "Completed", ",", "CompletedText", ",",
               "Priority">>

\* The csv branch of generateExportContent
CsvContent(items) ==
    <<"BOM">> \o Join(<<csvHeader>> \o [i \in 1..Len(items) |->
                                            CsvRow(items[i])],
                      <<"\n">>)

\* The json branch reporting the length as the completed count
JsonContentCountsAll(items, clock) ==
    << <<"exportTime", clock>>,
       <<"total", Len(items)>>,
       <<"completed", Len(items)>>,
       <<"todos", JSONstringify(items).items>> >>

\* The json branch of generateExportContent: the object given to
\* JSON.stringify, its keys in order
JsonContent(items, clock) ==
    << <<"exportTime", clock>>,
       <<"total", Len(items)>>,
       <<"completed", CountWhere(items, Completed(items))>>,
       <<"todos", JSONstringify(items).items>> >>

\* One line of the body of the txt branch
TxtLine(todo) ==
    <<"[", IF todo.completed THEN "mark-done" ELSE "mark-open", "]", " ",
      priorityIcon(todo.priority), " ", "[", priorityLabels(todo.priority),
      "]", " ">> \o (IF HasText(todo) THEN todo.text ELSE <<"undefined">>)

\* The txt branch of generateExportContent
TxtContent(items, clock) ==
    LET n(indices) == ToString(CountWhere(items, indices))
        all        == 1..Len(items)
        prio(p)    == {i \in all : items[i].priority = p}
    IN  <<"title", ToString(clock), "\n", "divider", "\n">>
        \o <<"\n">>
        \o Join([i \in all |-> TxtLine(items[i])], <<"\n">>)
        \o <<"\n">>
        \o <<"\n", "divider", "\n",
             "total", n(all), "done", n(Completed(items)),
             "open", n(all \ Completed(items)), "\n",
             "high", n(prio("high")), "medium", n(prio("medium")),
             "low", n(prio("low"))>>

\* generateExportContent raises a TypeError: the csv branch calls replace on
\* a text that is undefined
ContentThrows(format, items) ==
    format = "csv" /\ \E i \in 1..Len(items) : ~HasText(items[i])

\* generateExportContent(format, todosToExport), the clock read by new Date()
generateExportContent(format, items, clock) ==
    CASE format = "json" -> JsonContent(items, clock)
      [] format = "csv"  -> CsvContent(items)
      [] OTHER           -> TxtContent(items, clock)

\* exportTodos without the test for an empty todosToExport
exportTodosUnchecked(ts, sel, format, onlySelected, clock) ==
    LET todosToExport == TodosToExport(ts, sel, onlySelected)
    IN  IF ContentThrows(format, todosToExport)
        THEN [res |-> "threw", items |-> todosToExport, content |-> <<>>]
        ELSE [res |-> "download", items |-> todosToExport,
              content |-> generateExportContent(format, todosToExport,
                                                clock)]

\* What exportTodos does: alert and return, or format and call downloadFile,
\* or stop at the error generateExportContent raises
exportTodos(ts, sel, format, onlySelected, clock) ==
    LET todosToExport == TodosToExport(ts, sel, onlySelected)
    IN  IF Len(todosToExport) = 0
        THEN [res |-> "alert", items |-> <<>>, content |-> <<>>]
        ELSE IF ContentThrows(format, todosToExport)
        THEN [res |-> "threw", items |-> todosToExport, content |-> <<>>]
        ELSE [res |-> "download", items |-> todosToExport,
              content |-> generateExportContent(format, todosToExport,
                                                clock)]

-----------------------------------------------------------------------------
(* The component *)

Init ==
    /\ todos = <<>>
    /\ isHydrated = FALSE
    /\ selectedIds = {}
    /\ store \in Stores
    /\ microtask = "queued"
    /\ now = BootTime
    /\ maxGenId = 0
    /\ written = FALSE
    /\ last = [op |-> "mount"]

\* The render after setTodos or setIsHydrated, then the save effect
Render(ts, hyd) ==
    /\ todos' = ts
    /\ isHydrated' = hyd
    /\ store' = Persist(ts, hyd, store, written).store
    /\ written' = Persist(ts, hyd, store, written).written

\* Time passes between two events
Tick ==
    /\ now < MaxClock
    /\ now' = now + 1
    /\ last' = [op |-> "tick"]
    /\ UNCHANGED <<todos, isHydrated, selectedIds, store, microtask,
                   maxGenId, written>>

\* The microtask queued by the load effect
Load ==
    /\ microtask = "queued"
    /\ microtask' = "done"
    /\ Render(LoadedTodos(store, todos), TRUE)
    /\ last' = [op |-> "load", saved |-> store]
    /\ UNCHANGED <<selectedIds, now, maxGenId>>

\* A click on the add button, or Enter, with the input holding v and the
\* priority buttons at p; addTodo calls setTodos only when it appends
AddTodo(v, p) ==
    LET appended == addTodo(todos, v, p, now)
    IN  /\ IF appended # todos
           THEN /\ Render(appended, isHydrated)
                /\ maxGenId' = appended[Len(appended)].id
           ELSE UNCHANGED <<todos, isHydrated, store, written, maxGenId>>
        /\ last' = [op |-> "add", res |-> AddOutcome(todos, v)]
        /\ UNCHANGED <<selectedIds, microtask, now>>

\* A click on the text of a listed item
ToggleTodo(id) ==
    /\ Render(toggleTodo(todos, id), isHydrated)
    /\ last' = [op |-> "toggle", id |-> id]
    /\ UNCHANGED <<selectedIds, microtask, now, maxGenId>>

\* A click on the delete button of a listed item
DeleteTodo(id) ==
    /\ Render(deleteTodo(todos, selectedIds, id).todos, isHydrated)
    /\ selectedIds' = deleteTodo(todos, selectedIds, id).selectedIds
    /\ last' = [op |-> "delete", id |-> id, selected |-> id \in selectedIds]
    /\ UNCHANGED <<microtask, now, maxGenId>>

\* A click on the checkbox of a listed item
ToggleSelect(id) ==
    /\ selectedIds' = toggleSelect(selectedIds, id)
    /\ last' = [op |-> "select", id |-> id]
    /\ UNCHANGED <<todos, isHydrated, store, microtask, now, maxGenId,
                   written>>

\* The toolbar (select all, export, batch delete) is rendered
ToolbarShown == Len(todos) > 0

\* The checked attribute of the select-all checkbox
Checked(ts, sel) == Cardinality(sel) = Len(ts) /\ Len(ts) > 0

\* The indeterminate property the effect gives the select-all checkbox
Indeterminate(ts, sel) == Cardinality(sel) > 0 /\ Cardinality(sel) < Len(ts)

\* A click on the select-all checkbox
ToggleSelectAll ==
    /\ ToolbarShown
    /\ selectedIds' = toggleSelectAll(todos, selectedIds)
    /\ last' = [op |-> "selectAll"]
    /\ UNCHANGED <<todos, isHydrated, store, microtask, now, maxGenId,
                   written>>

\* A click on the batch-delete button, rendered while something is selected
BatchDelete ==
    /\ ToolbarShown
    /\ Cardinality(selectedIds) > 0
    /\ Render(batchDelete(todos, selectedIds).todos, isHydrated)
    /\ selectedIds' = batchDelete(todos, selectedIds).selectedIds
    /\ last' = [op |-> "batchDelete"]
    /\ UNCHANGED <<microtask, now, maxGenId>>

\* A click on an entry of the export menu; the entries for the selected items
\* are rendered while something is selected
ExportTodos(format, onlySelected) ==
    LET r == exportTodos(todos, selectedIds, format, onlySelected, now)
    IN  /\ ToolbarShown
        /\ onlySelected => Cardinality(selectedIds) > 0
        /\ last' = [op |-> "export", format |-> format,
                    onlySelected |-> onlySelected, res |-> r.res,
                    items |-> r.items, content |-> r.content]
        /\ UNCHANGED <<todos, isHydrated, selectedIds, store, microtask, now,
                       maxGenId, written>>

Next ==
    \/ Tick
    \/ Load
    \/ \E v \in Inputs, p \in Priority : AddTodo(v, p)
    \/ \E id \in Ids(todos) : ToggleTodo(id)
    \/ \E id \in Ids(todos) : DeleteTodo(id)
    \/ \E id \in Ids(todos) : ToggleSelect(id)
    \/ ToggleSelectAll
    \/ BatchDelete
    \/ \E f \in ExportFormat, os \in BOOLEAN : ExportTodos(f, os)

Spec == Init /\ [][Next]_vars

-----------------------------------------------------------------------------
(* Properties *)

\* The ids a handler can be called with
IdUniverse == 1..MaxClock

\* C1: no two items of the collection have texts that are equal under
\* case-insensitive comparison, in every state reached from the empty list.
C1_NoDuplicateTexts ==
    \A i, j \in 1..Len(todos) :
        (i # j /\ HasText(todos[i]) /\ HasText(todos[j]))
            => toLowerCase(todos[i].text) # toLowerCase(todos[j].text)

\* Two items are listed and the add just attempted was a duplicate.
C1_Witness ==
    /\ Len(todos) = 2
    /\ last.op = "add"
    /\ last.res = "dup"

\* C2: the selection set is a subset of the ids of the items currently in the
\* collection, in every reachable state.
C2_SelectionWithinCollection == selectedIds \subseteq Ids(todos)

\* C3: no write to the store happens before the initial load has read it: a
\* write implies the microtask has run, and the load of a saved array writes
\* back as many records as it read, never the empty initial state.
C3_NoWriteBeforeLoad ==
    /\ written => microtask = "done" /\ isHydrated
    /\ microtask = "queued" => store \in Stores
    /\ (last.op = "load" /\ ParsesAsArray(last.saved))
           => Len(store.items) = Len(last.saved.items)

\* An item was added before the load, and the load then read a saved array of
\* two records.
C3_Witness ==
    /\ last.op = "load"
    /\ ParsesAsArray(last.saved)
    /\ Len(last.saved.items) = 2
    /\ maxGenId > 0
    /\ written

\* C4: every item appended by add receives an id strictly greater than every
\* id generated earlier, and no two items of the collection share an id.
C4_FreshIdsIncrease ==
    [][(last'.op = "add" /\ last'.res = "added")
          => /\ todos'[Len(todos')].id > maxGenId
             /\ \A i, j \in 1..Len(todos') :
                    i # j => todos'[i].id # todos'[j].id]_vars

\* C5: a rejected add (blank text, or a text equal up to case to an existing
\* one) leaves the item sequence and the selection set unchanged.
C5_RejectedAddIsNoOp ==
    [][(last'.op = "add" /\ last'.res \in {"blank", "dup"})
          => /\ todos' = todos
             /\ selectedIds' = selectedIds]_vars

\* A duplicate was just rejected while an item was selected.
C5_Witness ==
    /\ last.op = "add"
    /\ last.res = "dup"
    /\ todos # <<>>
    /\ selectedIds # {}

\* Item u is item t with completed flipped and every other field as it was
Flipped(t, u) ==
    /\ DOMAIN u = DOMAIN t
    /\ u.completed = ~t.completed
    /\ \A k \in DOMAIN t \ {"completed"} : u[k] = t[k]

\* C6: toggle(id) flips completed on the items with that id and changes no
\* other field, no other item, not the order and not the selection; applied
\* twice it restores every completed value; for an id not in the collection
\* it changes no item.
C6_ToggleInvolution ==
    /\ [](\A id \in IdUniverse :
            LET once  == toggleTodo(todos, id)
                twice == toggleTodo(once, id)
            IN  /\ Len(once) = Len(todos)
                /\ \A i \in 1..Len(todos) :
                       IF todos[i].id = id
                       THEN Flipped(todos[i], once[i])
                       ELSE once[i] = todos[i]
                /\ \A i \in 1..Len(todos) :
                       twice[i].completed = todos[i].completed
                /\ id \notin Ids(todos) => once = todos)
    /\ [][last'.op = "toggle"
            => /\ todos' = toggleTodo(todos, last'.id)
               /\ selectedIds' = selectedIds]_vars

\* An item has just been toggled to completed while another item and a
\* selection exist.
C6_Witness ==
    /\ last.op = "toggle"
    /\ Len(todos) = 2
    /\ selectedIds # {}
    /\ \E i \in 1..2 : todos[i].id = last.id /\ todos[i].completed

\* C7: after remove(id) the id is in neither the collection nor the selection
\* set, and a second remove(id) changes neither.
C7_RemoveIdempotent ==
    /\ \A id \in IdUniverse :
           LET first  == deleteTodo(todos, selectedIds, id)
               second == deleteTodo(first.todos, first.selectedIds, id)
           IN  /\ id \notin Ids(first.todos)
               /\ id \notin first.selectedIds
               /\ second = first
    /\ last.op = "delete"
           => last.id \notin Ids(todos) /\ last.id \notin selectedIds

\* A selected item has just been removed; another item stays, selected.
C7_Witness ==
    /\ last.op = "delete"
    /\ last.selected
    /\ todos # <<>>
    /\ selectedIds # {}

\* The selection after two calls of toggleSelectAll with the items unchanged
TwiceSelectAll == toggleSelectAll(todos, toggleSelectAll(todos, selectedIds))

\* C8 as claimed: from every reachable state, calling toggleSelectAll twice
\* returns the selection set to the value it had before the first call.
C8_SelectAllInvolution == TwiceSelectAll = selectedIds

\* C8 as amended: calling toggleSelectAll twice returns the selection set to
\* its prior value exactly when that value is the set of all item ids, or is
\* empty while no two items share an id.
C8_SelectAllTwice ==
    (TwiceSelectAll = selectedIds)
        <=> \/ selectedIds = Ids(todos)
            \/ selectedIds = {} /\ Cardinality(Ids(todos)) = Len(todos)

\* toggleSelectAll has just cleared a full selection of two items.
C8_Witness ==
    /\ last.op = "selectAll"
    /\ Len(todos) = 2
    /\ Cardinality(Ids(todos)) = 2
    /\ selectedIds = {}

\* The item subset of an export is empty
EmptySubset(onlySelected) ==
    IF onlySelected THEN Ids(todos) \cap selectedIds = {} ELSE todos = <<>>

\* C9: an export whose item subset is empty raises the notification and
\* aborts, in particular an export of the selected items directly after
\* batchDelete; the file-save step is only invoked for a non-empty sequence.
C9_EmptyExportBlocked ==
    /\ \A f \in ExportFormat, os \in BOOLEAN :
           LET r == exportTodos(todos, selectedIds, f, os, now)
           IN  /\ EmptySubset(os) => r.res = "alert"
               /\ r.res = "download" => r.items # <<>>
               /\ (last.op = "batchDelete" /\ os) => r.res = "alert"
    /\ last.op = "export"
           => /\ EmptySubset(last.onlySelected) => last.res = "alert"
              /\ last.res = "download" => last.items # <<>>

\* An export of the selected items has just been blocked.
C9_Witness ==
    /\ last.op = "export"
    /\ last.onlySelected
    /\ last.res = "alert"

\* The members of a stored record with a missing priority added as medium
UpgradeMissing(ms) ==
    IF \E j \in 1..Len(ms) : ms[j][1] = "priority"
    THEN ms
    ELSE Append(ms, <<"priority", "medium">>)

\* The members of a stored record with a missing priority added, and a falsy
\* one replaced in place, as medium
UpgradeFalsy(ms) ==
    [j \in 1..Len(UpgradeMissing(ms)) |->
        IF UpgradeMissing(ms)[j] = <<"priority", "">>
        THEN <<"priority", "medium">>
        ELSE UpgradeMissing(ms)[j]]

C11_LoadFailureEndsEmpty ==
    (last.op = "load" /\ ~ParsesAsArray(last.saved))
        => todos = <<>> /\ isHydrated

\* C11 as amended: hydration always completes (isHydrated becomes true); a
\* stored value that is text but fails to parse as an array empties the
\* collection, while an absent value or the empty string leaves the
\* collection as it was, which is empty unless an add ran before the load.
C11_LoadFailure ==
    /\ [](last.op = "load" =>
            /\ isHydrated
            /\ microtask = "done"
            /\ last.saved.kind \in {"malformed", "object"} => todos = <<>>
            /\ (~ParsesAsArray(last.saved) /\ maxGenId = 0) => todos = <<>>)
    /\ [][(last'.op = "load" /\ last'.saved.kind \in {"null", "empty"})
            => todos' = todos]_vars

\* The load has just discarded malformed text after an add had run.
C11_Witness ==
    /\ last.op = "load"
    /\ last.saved.kind = "malformed"
    /\ maxGenId > 0
    /\ todos = <<>>
    /\ isHydrated

\* C12: after hydration the stored value is the serialization of the whole
\* current collection after every change of it.
C12_StoreMirrorsTodos ==
    /\ isHydrated => written /\ store = JSONstringify(todos)
    /\ (isHydrated /\ last.op \in {"add", "toggle", "delete", "batchDelete"})
           => store.kind = "array" /\ Len(store.items) = Len(todos)

\* A batch delete after hydration has left one item, which the store holds.
C12_Witness ==
    /\ isHydrated
    /\ last.op = "batchDelete"
    /\ Len(todos) = 1
    /\ Len(store.items) = 1

\* The export that has just handed a content to the file-save step
Downloaded(format) ==
    /\ last.op = "export"
    /\ last.res = "download"
    /\ last.format = format

\* C13: the exported sequence is the whole collection (scope all) or exactly
\* the items whose ids are selected, in collection order (scope selected);
\* the json output reports total = its length, completed = the number of its
\* completed items, and todos = that sequence.
C13_JsonExport ==
    /\ (last.op = "export" /\ last.res = "download")
           => last.items =
                  IF last.onlySelected
                  THEN SelectSeq(todos, LAMBDA t : t.id \in selectedIds)
                  ELSE todos
    /\ Downloaded("json")
           => /\ Len(last.content) = 4
              /\ last.content[1][1] = "exportTime"
              /\ last.content[2] = <<"total", Len(last.items)>>
              /\ last.content[3] =
                     <<"completed",
                       Cardinality({i \in 1..Len(last.items) :
                                       last.items[i].completed})>>
              /\ last.content[4][1] = "todos"
              /\ Len(last.content[4][2]) = Len(last.items)
              /\ \A i \in 1..Len(last.items) :
                     ObjectOf(last.content[4][2][i]) = last.items[i]

\* A json export of the selected items has just written one of two items, a
\* completed one.
C13_Witness ==
    /\ Downloaded("json")
    /\ last.onlySelected
    /\ Len(last.items) = 1
    /\ Len(todos) = 2
    /\ last.items[1].completed

RECURSIVE Split(_, _)
\* The pieces of a text between the occurrences of the separator
Split(text, sep) ==
    IF \A i \in 1..Len(text) : text[i] # sep THEN <<text>>
    ELSE LET k == CHOOSE i \in 1..Len(text) :
                      text[i] = sep /\ \A j \in 1..(i - 1) : text[j] # sep
         IN  <<SubSeq(text, 1, k - 1)>>
                 \o Split(SubSeq(text, k + 1, Len(text)), sep)

RECURSIVE Doubled(_)
\* A text with every double quote written twice
Doubled(text) ==
    IF text = <<>> THEN <<>>
    ELSE (IF Head(text) = "\"" THEN <<"\"", "\"">> ELSE <<Head(text)>>)
             \o Doubled(Tail(text))

\* The csv content is the byte-order mark, the header row and one row of five
\* fields per exported item in order, whose first field is idField(item) and
\* whose second is the item text in quotes with every quote doubled
CsvLayout(idField(_)) ==
    Downloaded("csv") =>
        LET rows == Split(Tail(last.content), "\n")
        IN  /\ Head(last.content) = "BOM"
            /\ Split(rows[1], ",") =
                   << <<"ID">>, <<"Text">>, <<"Completed">>,
                      <<"CompletedText">>, <<"Priority">> >>
            /\ Len(rows) = 1 + Len(last.items)
            /\ \A i \in 1..Len(last.items) :
                   LET fields == Split(rows[i + 1], ",")
                   IN  /\ Len(fields) = 5
                       /\ fields[1] = idField(last.items[i])
                       /\ fields[2] = <<"\"">> \o Doubled(last.items[i].text)
                                          \o <<"\"">>

\* C14 as claimed: the csv output is the byte-order mark, the header row, then
\* one row per exported item in order; each row's first field is the item's
\* id and its text field is the text in double quotes with quotes doubled.
C14_CsvFirstFieldIsId == CsvLayout(LAMBDA t : <<ToString(t.id)>>)

\* C14 as amended: as claimed, except that each row's first field is a tab
\* character followed by the item's id.
C14_CsvFirstFieldIsTabId == CsvLayout(LAMBDA t : <<"\t", ToString(t.id)>>)

\* A csv export has just written two items, one whose text holds quotes.
C14_Witness ==
    /\ Downloaded("csv")
    /\ Len(last.items) = 2
    /\ \E i \in 1..2 : \E k \in 1..Len(last.items[i].text) :
           last.items[i].text[k] = "\""

\* C15: toggleSelectAll decides by set equality: if the selection equals the
\* set of ids of all items it becomes empty, otherwise it becomes exactly that
\* set; the size test of the code agrees with set equality in every reachable
\* state where the checkbox is rendered.
C15_SelectAllBySetEquality ==
    ToolbarShown =>
        /\ (Cardinality(selectedIds) = Len(todos)) <=> (selectedIds = Ids(todos))
        /\ toggleSelectAll(todos, selectedIds) =
               IF selectedIds = Ids(todos) THEN {} ELSE Ids(todos)

\* C16: batchDelete leaves the subsequence of the previous collection whose
\* ids are not selected, in the same order and with every field unchanged,
\* and leaves the selection empty.
C16_BatchDeleteExact ==
    [][last'.op = "batchDelete" =>
           /\ todos' = SelectSeq(todos, LAMBDA t : t.id \notin selectedIds)
           /\ selectedIds' = {}]_vars

\* A batch delete has just removed a selected item and kept an unselected one.
C16_Witness ==
    /\ last.op = "batchDelete"
    /\ Len(todos) > 0
    /\ selectedIds = {}

\* s without its k-th element
RemoveAt(s, k) == SubSeq(s, 1, k - 1) \o SubSeq(s, k + 1, Len(s))

\* C17: remove(id) of a present id deletes exactly one item: the length goes
\* down by exactly 1 and the other items keep their fields and order; remove
\* of an absent id leaves the collection unchanged.
C17_RemoveExactlyOne ==
    /\ [](\A id \in IdUniverse \ Ids(todos) :
              deleteTodo(todos, selectedIds, id).todos = todos)
    /\ [][last'.op = "delete" =>
              /\ Len(todos') = Len(todos) - 1
              /\ \E k \in 1..Len(todos) :
                     /\ todos[k].id = last'.id
                     /\ todos' = RemoveAt(todos, k)]_vars

\* C18: toggleSelect(id) adds id when absent and removes it when present,
\* leaving every other selected id unchanged; when id is not the id of an
\* item, toggleSelect(id) leaves the selection unchanged.
C18_ToggleSelectGuarded ==
    \A id \in IdUniverse :
        toggleSelect(selectedIds, id) =
            IF id \notin Ids(todos) THEN selectedIds
            ELSE IF id \in selectedIds THEN selectedIds \ {id}
            ELSE selectedIds \cup {id}

\* The select-all indicator as the specification derives it
Indicator(ts, sel) ==
    IF Cardinality(sel) = Len(ts) /\ Len(ts) > 0 THEN "all"
    ELSE IF Cardinality(sel) = 0 THEN "none"
    ELSE "partial"

\* C19: wherever the select-all checkbox is rendered, it is checked iff the
\* indicator is all, indeterminate iff it is partial, neither iff it is none,
\* and never both checked and indeterminate.
C19_TriStateIndicator ==
    ToolbarShown =>
        /\ Checked(todos, selectedIds) <=> Indicator(todos, selectedIds) = "all"
        /\ Indeterminate(todos, selectedIds)
               <=> Indicator(todos, selectedIds) = "partial"
        /\ ~(Checked(todos, selectedIds) /\ Indeterminate(todos, selectedIds))

\* C20: an accepted add lengthens the collection by exactly one; the new item
\* is last and has the trimmed text, completed = false and the priority
\* chosen; the earlier items keep their fields and order, and the selection
\* is unchanged.
C20_AcceptedAddAppendsOne ==
    /\ [](\A v \in Inputs, p \in Priority :
              AddOutcome(todos, v) = "added" =>
                  LET r == addTodo(todos, v, p, now)
                  IN  /\ Len(r) = Len(todos) + 1
                      /\ SubSeq(r, 1, Len(todos)) = todos
                      /\ r[Len(r)].text = trim(v)
                      /\ r[Len(r)].completed = FALSE
                      /\ r[Len(r)].priority = p)
    /\ [][(last'.op = "add" /\ last'.res = "added") =>
              /\ selectedIds' = selectedIds
              /\ \E v \in Inputs, p \in Priority :
                     /\ AddOutcome(todos, v) = "added"
                     /\ todos' = addTodo(todos, v, p, now)]_vars

\* An add has just been accepted after another item, which is selected, and
\* the new item has a priority other than the default.
C20_Witness ==
    /\ last.op = "add"
    /\ last.res = "added"
    /\ Len(todos) = 2
    /\ selectedIds = {todos[1].id}
    /\ todos[2].priority = "high"

\* C21: every mutation operation is total in every reachable state, states
\* hydrated from any store value that parses as an array included: add never
\* raises an error, for any input, and no add that ran has raised one.
C21_MutationsTotal ==
    /\ last.op = "add" => last.res # "threw"
    /\ \A v \in Inputs : AddOutcome(todos, v) # "threw"

\* C22: an item stays in the collection until a remove with its id or a
\* batchDelete while its id is selected; the completion of hydration drops no
\* item added before the load ran, and that item is in the store the load
\* writes.
C22_AddedItemStays ==
    /\ [][\A i \in 1..Len(todos) :
              \/ \E j \in 1..Len(todos') : todos'[j].id = todos[i].id
              \/ last'.op = "delete" /\ last'.id = todos[i].id
              \/ last'.op = "batchDelete" /\ todos[i].id \in selectedIds]_vars
    /\ [][last'.op = "load" =>
              \A i \in 1..Len(todos) :
                  /\ store'.kind = "array"
                  /\ \E j \in 1..Len(store'.items) :
                         ObjectOf(store'.items[j]).id = todos[i].id]_vars

\* Selection and export leave the collection and the store as they are, and
\* what a step writes to the store is a function of the collection alone
SelectionNotPersisted ==
    /\ [][last'.op \in {"select", "selectAll", "export"}
              => todos' = todos /\ store' = store /\ written' = written]_vars
    /\ [][store' # store => store' = JSONstringify(todos')]_vars

\* C23 as claimed: selection and export never touch persisted data, the
\* selection is never written to the store, and the state after a hydration
\* always has an empty selection.
C23_HydratedSelectionEmpty ==
    /\ SelectionNotPersisted
    /\ [](last.op = "load" => selectedIds = {})

\* C23 as amended: selection and export never touch persisted data, the
\* selection is never written to the store, the selection is empty at the
\* mount and the load leaves it as it is.
C23_LoadKeepsSelection ==
    /\ SelectionNotPersisted
    /\ [](last.op = "mount" => selectedIds = {})
    /\ [][last'.op = "load" => selectedIds' = selectedIds]_vars

\* An export of the selected items has just run on a hydrated component whose
\* store holds two items.
C23_Witness ==
    /\ last.op = "export"
    /\ last.onlySelected
    /\ isHydrated
    /\ selectedIds # {}
    /\ store.kind = "array"
    /\ Len(store.items) = 2

=============================================================================
